---- MODULE Spec2Model ----
(***************************************************************************)
(* Conformance analysis of scripts/validate-metadata.js: the handler       *)
(* locator (findInvokeHandler), the parameter-usage collector              *)
(* (extractInputs), the return-shape collector (extractOutputs) and the    *)
(* comparator (the tail of validateConformance), run over an ESTree-style  *)
(* syntax tree and a metadata contract.                                    *)
(*                                                                         *)
(* Syntax-tree nodes are records with the fields acorn gives them.  A      *)
(* field the parser does not set is absent from the record, so reading a   *)
(* property of it is the TypeError JavaScript raises.  A JavaScript Set is *)
(* a duplicate-free sequence in insertion order.                           *)
(***************************************************************************)
EXTENDS Naturals, Sequences, FiniteSets

VARIABLES metadata, source, pc, invokeFn, codeInputs, codeOutputs,
          outputErrors, hasDynamicReturn, errors, warnings,
          stderr, stdout, result, calls

vars == <<metadata, source, pc, invokeFn, codeInputs, codeOutputs,
          outputErrors, hasDynamicReturn, errors, warnings,
          stderr, stdout, result, calls>>

\* The action of src/script.mjs: the job's arguments, the position in
\* invoke, its locals, the HTTP requests issued, and how the promise settled.
VARIABLES jobParams, context, stage, authHeader, baseUrl, requests, response,
          settled

scriptVars == <<jobParams, context, stage, authHeader, baseUrl, requests,
                response, settled>>

(* ---------------------------------------------------------------------- *)
(* Bounds                                                                  *)
(* ---------------------------------------------------------------------- *)

\* Longest handler body (number of statements).
MaxBody == 2

\* Longest destructuring pattern of the handler's parameter, and longest
\* default-exported record.
MaxProps == 2

(* ---------------------------------------------------------------------- *)
(* JavaScript values                                                       *)
(* ---------------------------------------------------------------------- *)

\* The value of a property that is not there.
Undefined == "#undefined"

\* A null child (a return without argument, a declarator without init).
Null == [type |-> "#null"]

Range(s) == {s[i] : i \in 1..Len(s)}

SeqsUpTo(S, n) == UNION {[1..k -> S] : k \in 0..n}

\* Set.prototype.add: insertion order, no duplicates.
SetAdd(s, x) == IF x \in Range(s) THEN s ELSE Append(s, x)

RECURSIVE SetAddAll(_, _)
SetAddAll(s, xs) ==
    IF xs = <<>> THEN s ELSE SetAddAll(SetAdd(s, Head(xs)), Tail(xs))

\* new Set(iterable)
NewSet(xs) == SetAddAll(<<>>, xs)

\* Set.prototype.has
SetHas(s, x) == x \in Range(s)

(* ---------------------------------------------------------------------- *)
(* Syntax-tree nodes                                                       *)
(* ---------------------------------------------------------------------- *)

Identifier(n) == [type |-> "Identifier", name |-> n]

Literal(v) == [type |-> "Literal", value |-> v]

CallExpression == [type |-> "CallExpression"]

Property(k, v) == [type |-> "Property", key |-> k, value |-> v]

\* `...x` in a record literal; it has an argument and no key.
SpreadElement == [type |-> "SpreadElement", argument |-> Identifier("extra")]

\* `...x` in a destructuring pattern; it has an argument and no key.
RestElement == [type |-> "RestElement", argument |-> Identifier("rest")]

ObjectExpression(props) == [type |-> "ObjectExpression", properties |-> props]

ObjectPattern(props) == [type |-> "ObjectPattern", properties |-> props]

\* `x = {}` as a parameter: a pattern that is neither a name nor a record.
AssignmentPattern == [type |-> "AssignmentPattern", left |-> Identifier("params")]

MemberExpression(obj, prop, comp) ==
    [type |-> "MemberExpression", object |-> obj, property |-> prop,
     computed |-> comp]

VariableDeclarator(id, init) ==
    [type |-> "VariableDeclarator", id |-> id, init |-> init]

ReturnStatement(arg) == [type |-> "ReturnStatement", argument |-> arg]

\* `x = y` as a statement.
AssignmentExpression(left, right) ==
    [type |-> "AssignmentExpression", left |-> left, right |-> right]

BlockStatement(stmts) == [type |-> "BlockStatement", body |-> stmts]

ArrowFunctionExpression(params, stmts) ==
    [type |-> "ArrowFunctionExpression", params |-> params,
     body |-> BlockStatement(stmts)]

ExportDefaultDeclaration(decl) ==
    [type |-> "ExportDefaultDeclaration", declaration |-> decl]

ImportDeclaration == [type |-> "ImportDeclaration"]

Program(stmts) == [type |-> "Program", body |-> stmts]

\* `x.name || x.value` on a key or property node.
NameOrValue(k) ==
    IF "name" \in DOMAIN k THEN k.name
    ELSE IF "value" \in DOMAIN k THEN k.value
    ELSE Undefined

\* What Array.prototype.find gives when nothing matches.
NotFound == [type |-> "#undefined"]

\* The outcome of a call: a returned value, or an exception.
Returned(v) == [threw |-> FALSE, value |-> v]

Threw == [threw |-> TRUE, value |-> "TypeError"]

\* Array.prototype.map
Map(f(_), xs) == [i \in 1..Len(xs) |-> f(xs[i])]

\* Least element of a non-empty set of numbers.
Min(S) == CHOOSE i \in S : \A j \in S : i <= j

(* ---------------------------------------------------------------------- *)
(* acorn-walk: walk.simple                                                 *)
(* ---------------------------------------------------------------------- *)

FunctionTypes == {"ArrowFunctionExpression", "FunctionExpression",
                  "FunctionDeclaration"}

\* The nodes of a subtree in the order walk.simple calls the visitors:
\* children first, then the node; function literals are walked into.
RECURSIVE WalkSimple(_)
RECURSIVE WalkAll(_)

\* WalkSimple as it would be if the walk stopped at function literals.
WalkSimple_SkipsFunctions(node) ==
    IF node.type = "BlockStatement" THEN WalkAll(node.body)
    ELSE IF node.type \in FunctionTypes THEN <<node>>
    ELSE IF node.type = "VariableDeclarator"
        THEN (IF node.init = Null THEN <<>> ELSE WalkSimple(node.init)) \o <<node>>
    ELSE IF node.type = "MemberExpression"
        THEN WalkSimple(node.object)
             \o (IF node.computed THEN WalkSimple(node.property) ELSE <<>>)
             \o <<node>>
    ELSE IF node.type = "ReturnStatement"
        THEN (IF node.argument = Null THEN <<>> ELSE WalkSimple(node.argument))
             \o <<node>>
    ELSE <<node>>

WalkSimple(node) ==
    IF node.type = "BlockStatement" THEN WalkAll(node.body)
    ELSE IF node.type \in FunctionTypes THEN WalkSimple(node.body) \o <<node>>
    ELSE IF node.type = "VariableDeclarator"
        THEN (IF node.init = Null THEN <<>> ELSE WalkSimple(node.init)) \o <<node>>
    ELSE IF node.type = "MemberExpression"
        THEN WalkSimple(node.object)
             \o (IF node.computed THEN WalkSimple(node.property) ELSE <<>>)
             \o <<node>>
    ELSE IF node.type = "ReturnStatement"
        THEN (IF node.argument = Null THEN <<>> ELSE WalkSimple(node.argument))
             \o <<node>>
    ELSE <<node>>

WalkAll(nodes) ==
    IF nodes = <<>> THEN <<>>
    ELSE WalkSimple(Head(nodes)) \o WalkAll(Tail(nodes))

(* ---------------------------------------------------------------------- *)
(* findInvokeHandler                                                       *)
(* ---------------------------------------------------------------------- *)

\* ast.body.find(n => n.type === 'ExportDefaultDeclaration')
FindExportDefault(ast) ==
    LET hits == {i \in 1..Len(ast.body) :
                    ast.body[i].type = "ExportDefaultDeclaration"}
    IN IF hits = {} THEN NotFound ELSE ast.body[Min(hits)]

\* properties.find(p => (p.key.name || p.key.value) === 'invoke'): the
\* callback runs on the properties in order and stops at the first match;
\* on a property without key, p.key.name is a TypeError.
FindInvokeProp(props) ==
    LET keyless == {i \in 1..Len(props) : "key" \notin DOMAIN props[i]}
        hits == {i \in 1..Len(props) :
                    /\ "key" \in DOMAIN props[i]
                    /\ NameOrValue(props[i].key) = "invoke"}
    IN IF keyless # {} /\ (hits = {} \/ Min(keyless) < Min(hits)) THEN Threw
       ELSE IF hits = {} THEN Returned(NotFound)
       ELSE Returned(props[Min(hits)])

findInvokeHandler(ast) ==
    LET exportDefault == FindExportDefault(ast)
    IN IF \/ exportDefault = NotFound
          \/ exportDefault.declaration.type # "ObjectExpression"
       THEN Returned(Null)
       ELSE LET invokeProp == FindInvokeProp(exportDefault.declaration.properties)
            IN IF invokeProp.threw THEN Threw
               ELSE IF invokeProp.value = NotFound THEN Returned(Null)
               ELSE Returned(invokeProp.value.value)

(* ---------------------------------------------------------------------- *)
(* extractInputs                                                           *)
(* ---------------------------------------------------------------------- *)

\* The names of a destructuring pattern's properties, p.key.name ||
\* p.key.value for each in order; a rest element has no key and throws.
PatternKeys(props) ==
    IF \E i \in 1..Len(props) : "key" \notin DOMAIN props[i] THEN Threw
    ELSE Returned(Map(LAMBDA p : NameOrValue(p.key), props))

\* VisitDeclarator as it would be without the test of the initializer.
VisitDeclarator_AnyInit(node, paramsName, inputs) ==
    IF node.id.type = "ObjectPattern"
    THEN LET keys == PatternKeys(node.id.properties)
         IN IF keys.threw THEN Threw
            ELSE Returned(SetAddAll(inputs, keys.value))
    ELSE Returned(inputs)

\* The VariableDeclarator visitor.
VisitDeclarator(node, paramsName, inputs) ==
    IF /\ node.id.type = "ObjectPattern"
       /\ node.init.type = "Identifier"
       /\ node.init.name = paramsName
    THEN LET keys == PatternKeys(node.id.properties)
         IN IF keys.threw THEN Threw
            ELSE Returned(SetAddAll(inputs, keys.value))
    ELSE Returned(inputs)

\* VisitMember as it would be without the test of node.computed.
VisitMember_ComputedToo(node, paramsName, inputs) ==
    IF /\ node.object.type = "Identifier"
       /\ node.object.name = paramsName
    THEN Returned(SetAdd(inputs, NameOrValue(node.property)))
    ELSE Returned(inputs)

\* The MemberExpression visitor.
VisitMember(node, paramsName, inputs) ==
    IF /\ node.object.type = "Identifier"
       /\ node.object.name = paramsName
       /\ ~node.computed
    THEN Returned(SetAdd(inputs, NameOrValue(node.property)))
    ELSE Returned(inputs)

\* walk.simple(invokeFn.body, {VariableDeclarator, MemberExpression}) over
\* the visited nodes, in order; an exception in a visitor ends the walk.
RECURSIVE WalkInputs(_, _, _)
WalkInputs(nodes, paramsName, inputs) ==
    IF nodes = <<>> THEN Returned(inputs)
    ELSE LET node == Head(nodes)
             step == IF node.type = "VariableDeclarator"
                        THEN VisitDeclarator(node, paramsName, inputs)
                     ELSE IF node.type = "MemberExpression"
                        THEN VisitMember(node, paramsName, inputs)
                     ELSE Returned(inputs)
         IN IF step.threw THEN Threw
            ELSE WalkInputs(Tail(nodes), paramsName, step.value)

\* extractInputs as it would be without the branch for a destructured
\* parameter.
extractInputs_NoPatternBranch(fn) ==
    IF "params" \notin DOMAIN fn THEN Threw
    ELSE IF fn.params = <<>> THEN Returned(<<>>)
    ELSE LET paramsParam == fn.params[1]
             paramsName == IF "name" \in DOMAIN paramsParam
                           THEN paramsParam.name ELSE Undefined
         IN WalkInputs(WalkSimple(fn.body), paramsName, <<>>)

extractInputs(fn) ==
    IF "params" \notin DOMAIN fn THEN Threw
    ELSE IF fn.params = <<>> THEN Returned(<<>>)
    ELSE LET paramsParam == fn.params[1]
         IN IF paramsParam.type = "ObjectPattern"
            THEN LET keys == PatternKeys(paramsParam.properties)
                 IN IF keys.threw THEN Threw ELSE Returned(NewSet(keys.value))
            ELSE LET paramsName == IF "name" \in DOMAIN paramsParam
                                     THEN paramsParam.name ELSE Undefined
                 IN WalkInputs(WalkSimple(fn.body), paramsName, <<>>)

(* ---------------------------------------------------------------------- *)
(* extractOutputs                                                          *)
(* ---------------------------------------------------------------------- *)

\* The messages of the analysis: what is wrong, and the name it is about.
Msg(kind, name) == [kind |-> kind, name |-> name]

SpreadError == Msg("Return statements in invoke must use explicit keys, not spread", Undefined)

\* VisitReturnProps as the loop would be if a spread made the whole statement
\* contribute no key.
VisitReturnProps_DropKeysOnSpread(props, acc) ==
    IF \E i \in 1..Len(props) : props[i].type = "SpreadElement"
    THEN [acc EXCEPT !.errors = Append(@, SpreadError)]
    ELSE [acc EXCEPT !.outputs =
                SetAddAll(@, [i \in 1..Len(props) |-> NameOrValue(props[i].key)])]

\* The loop over the properties of one returned record literal.
RECURSIVE VisitReturnProps(_, _)
VisitReturnProps(props, acc) ==
    IF props = <<>> THEN acc
    ELSE LET prop == Head(props)
         IN VisitReturnProps(Tail(props),
                IF prop.type = "SpreadElement"
                THEN [acc EXCEPT !.errors = Append(@, SpreadError)]
                ELSE [acc EXCEPT !.outputs = SetAdd(@, NameOrValue(prop.key))])

\* The ReturnStatement visitor.
VisitReturn(node, acc) ==
    IF node.argument = Null THEN acc
    ELSE IF node.argument.type = "ObjectExpression"
        THEN VisitReturnProps(node.argument.properties, acc)
    ELSE [acc EXCEPT !.hasDynamicReturn = TRUE]

\* walk.simple(invokeFn.body, {ReturnStatement}) over the visited nodes.
RECURSIVE WalkOutputs(_, _)
WalkOutputs(nodes, acc) ==
    IF nodes = <<>> THEN acc
    ELSE WalkOutputs(Tail(nodes),
            IF Head(nodes).type = "ReturnStatement"
            THEN VisitReturn(Head(nodes), acc) ELSE acc)

extractOutputs(fn) ==
    WalkOutputs(WalkSimple(fn.body),
                [outputs |-> <<>>, errors |-> <<>>, hasDynamicReturn |-> FALSE])

(* ---------------------------------------------------------------------- *)
(* validateConformance: the comparison                                     *)
(* ---------------------------------------------------------------------- *)

InputUndeclared(n) == Msg("Input is used in code but not declared in metadata", n)

InputUnused(n) == Msg("Input is declared in metadata but not read by invoke handler", n)

OutputsSkipped == Msg("Invoke handler returns a function call instead of an explicit object literal. Output conformance check skipped.", Undefined)

OutputNotReturned(n) == Msg("Output is declared in metadata but not returned by invoke handler", n)

OutputUndeclared(n) == Msg("Output is returned by invoke handler but not declared in metadata", n)

NoHandlerFound == Msg("Conformance check failed: no invoke handler found in default export", Undefined)

ScriptNotFound == Msg("Conformance check skipped: src/script.mjs not found", Undefined)

WarningsHeader == Msg("Conformance warnings:", Undefined)

FailedHeader == Msg("Conformance check failed:", Undefined)

PassedLine == Msg("Conformance check passed", Undefined)

\* for (const x of xs) if (!other.has(x)) list.push(msg(x))
PushMissing(xs, other, msg(_)) ==
    Map(msg, SelectSeq(xs, LAMBDA x : ~SetHas(other, x)))

\* UndeclaredInputErrors as it would be if the loop stopped at the first
\* undeclared name.
UndeclaredInputErrors_FirstOnly(cIn, mIn) ==
    LET all == PushMissing(cIn, mIn, InputUndeclared)
    IN IF all = <<>> THEN <<>> ELSE <<Head(all)>>

\* Inputs: code reads a param not declared in metadata.
UndeclaredInputErrors(cIn, mIn) == PushMissing(cIn, mIn, InputUndeclared)

\* UnusedInputWarnings as it would be with the two sets swapped.
UnusedInputWarnings_Swapped(cIn, mIn) == PushMissing(cIn, mIn, InputUnused)

\* Inputs: metadata declares an input the code never reads.
UnusedInputWarnings(cIn, mIn) == PushMissing(mIn, cIn, InputUnused)

\* OutputCheck as it would be without the loop over the returned keys.
OutputCheck_DeclaredOnly(cOut, mOut, dyn) ==
    IF dyn /\ Len(cOut) = 0
    THEN [errors |-> <<>>, warnings |-> <<OutputsSkipped>>]
    ELSE [errors |-> PushMissing(mOut, cOut, OutputNotReturned), warnings |-> <<>>]

\* OutputCheck as it would be if the checks were never skipped.
OutputCheck_NeverSkipped(cOut, mOut, dyn) ==
    [errors |-> PushMissing(mOut, cOut, OutputNotReturned)
                \o PushMissing(cOut, mOut, OutputUndeclared),
     warnings |-> <<>>]

\* OutputCheck as it would be if any dynamic return skipped the checks.
OutputCheck_SkippedOnAnyDynamic(cOut, mOut, dyn) ==
    IF dyn
    THEN [errors |-> <<>>, warnings |-> <<OutputsSkipped>>]
    ELSE [errors |-> PushMissing(mOut, cOut, OutputNotReturned)
                     \o PushMissing(cOut, mOut, OutputUndeclared),
          warnings |-> <<>>]

\* The output checks, or the warning that replaces them.
OutputCheck(cOut, mOut, dyn) ==
    IF dyn /\ Len(cOut) = 0
    THEN [errors |-> <<>>, warnings |-> <<OutputsSkipped>>]
    ELSE [errors |-> PushMissing(mOut, cOut, OutputNotReturned)
                     \o PushMissing(cOut, mOut, OutputUndeclared),
          warnings |-> <<>>]

\* CompareErrors as it would be if the structural defects were added by the
\* output checks, and so lost when those are skipped.
CompareErrors_DefectsWithOutputCheck(outErrs, cIn, cOut, mIn, mOut, dyn) ==
    (IF dyn /\ Len(cOut) = 0 THEN <<>> ELSE outErrs)
    \o UndeclaredInputErrors(cIn, mIn) \o OutputCheck(cOut, mOut, dyn).errors

\* The error list of a run, as validateConformance builds it.
CompareErrors(outErrs, cIn, cOut, mIn, mOut, dyn) ==
    outErrs \o UndeclaredInputErrors(cIn, mIn) \o OutputCheck(cOut, mOut, dyn).errors

\* The warning list of a run.
CompareWarnings(cIn, cOut, mIn, mOut, dyn) ==
    UnusedInputWarnings(cIn, mIn) \o OutputCheck(cOut, mOut, dyn).warnings

\* ReturnValue as it would be without the `return false` of the error branch.
ReturnValue_AlwaysTrue(errs) == "true"

\* if (errors.length > 0) { ...; return false; } ...; return true;
ReturnValue(errs) == IF Len(errs) > 0 THEN "false" ELSE "true"

(* ---------------------------------------------------------------------- *)
(* The inputs: contracts and script sources                                *)
(* ---------------------------------------------------------------------- *)

Names == {"a", "b"}

\* Object.keys of a declared map: distinct names, in the order written.
KeyLists == {<<>>, <<"a">>, <<"b">>, <<"b", "a">>}

Contracts == [inputs : KeyLists, outputs : KeyLists]

\* `a` written as a name, `b` written as a string literal key.
PropA == Property(Identifier("a"), Identifier("a"))

PropB == Property(Literal("b"), Identifier("b"))

Params == Identifier("params")

\* Bodies of at most one statement, for the sources that vary something else.
AtMostOne(S) == {<<>>} \cup {<<n>> : n \in S}

\* const <pattern> = <init>
Declarators ==
    {VariableDeclarator(ObjectPattern(l), i) :
        l \in {<<PropA>>, <<PropB, RestElement>>},
        i \in {Params, Identifier("other"),
               MemberExpression(Params, Identifier("b"), FALSE)}}

\* params.a, params['a'], other.a
Members ==
    {MemberExpression(Params, Identifier("a"), FALSE),
     MemberExpression(Params, Literal("a"), TRUE),
     MemberExpression(Identifier("other"), Identifier("a"), FALSE)}

\* return; return f(); return { ... };
Returns ==
    {ReturnStatement(Null), ReturnStatement(CallExpression)}
    \cup {ReturnStatement(ObjectExpression(l)) :
            l \in {<<PropA>>, <<PropA, PropB>>, <<PropA, SpreadElement>>,
                   <<SpreadElement>>}}

\* A function literal inside the handler, with a return of its own.
Nested == {ArrowFunctionExpression(<<>>, <<ReturnStatement(ObjectExpression(<<PropB>>))>>)}

\* params = other
Reassignments == {AssignmentExpression(Params, Identifier("other"))}

Statements == Declarators \cup Members \cup Returns \cup Nested \cup Reassignments

\* The handler's first parameter: a name, a default-valued name, or a
\* destructuring pattern.
PatternLists == SeqsUpTo({PropA, PropB, RestElement}, MaxProps)

FirstParams ==
    {Params, AssignmentPattern} \cup {ObjectPattern(l) : l \in PatternLists}

Handlers ==
    {ArrowFunctionExpression(<<p>>, b) :
        p \in {Params, AssignmentPattern}, b \in SeqsUpTo(Statements, MaxBody)}
    \cup {ArrowFunctionExpression(<<p>>, b) :
        p \in FirstParams, b \in AtMostOne(Statements)}
    \cup {ArrowFunctionExpression(<<>>, b) : b \in AtMostOne(Statements)}

Halt == Property(Identifier("halt"), ArrowFunctionExpression(<<Params>>, <<>>))

\* A script whose default export is a record with a handler and a halt hook.
ScriptOf(fn) ==
    Program(<<ImportDeclaration,
              ExportDefaultDeclaration(
                  ObjectExpression(<<Property(Identifier("invoke"), fn), Halt>>))>>)

\* The members of a default-exported record: a spread, a handler under the
\* name or the string 'invoke', a non-function under that name, another hook.
ExportMembers ==
    {SpreadElement, Halt,
     Property(Identifier("invoke"),
              ArrowFunctionExpression(<<Params>>, <<ReturnStatement(CallExpression)>>)),
     Property(Literal("invoke"),
              ArrowFunctionExpression(<<ObjectPattern(<<PropA>>)>>,
                                      <<ReturnStatement(ObjectExpression(<<PropA>>))>>)),
     Property(Identifier("invoke"), Literal("handler")),
     Property(Identifier("invoke"), Identifier("handler"))}

ExportShapes ==
    {Program(<<ImportDeclaration>>),
     Program(<<ExportDefaultDeclaration(Identifier("handler"))>>),
     Program(<<ExportDefaultDeclaration(ArrowFunctionExpression(<<Params>>, <<>>))>>)}
    \cup {Program(<<ExportDefaultDeclaration(ObjectExpression(l))>>) :
            l \in SeqsUpTo(ExportMembers, MaxProps)}

\* fs.existsSync(SCRIPT_FILE) is false.
NoFile == [type |-> "#nofile"]

Sources == {NoFile} \cup ExportShapes \cup {ScriptOf(fn) : fn \in Handlers}

(* ---------------------------------------------------------------------- *)
(* validateConformance                                                     *)
(* ---------------------------------------------------------------------- *)

\* The action is not invoked while the validator runs.
ScriptIdle ==
    /\ jobParams = [type |-> "#none"]
    /\ context = [type |-> "#none"]
    /\ stage = "idle"
    /\ authHeader = <<>>
    /\ baseUrl = <<>>
    /\ requests = <<>>
    /\ response = [type |-> "#none"]
    /\ settled = [state |-> "pending"]

Init ==
    /\ metadata \in Contracts
    /\ source \in Sources
    /\ pc = "start"
    /\ invokeFn = Null
    /\ codeInputs = <<>>
    /\ codeOutputs = <<>>
    /\ outputErrors = <<>>
    /\ hasDynamicReturn = FALSE
    /\ errors = <<>>
    /\ warnings = <<>>
    /\ stderr = <<>>
    /\ stdout = <<>>
    /\ result = "none"
    /\ calls = <<>>
    /\ ScriptIdle

\* The script file does not exist: the check is skipped and reported passed.
ScriptMissing ==
    /\ pc = "start"
    /\ source = NoFile
    /\ stderr' = Append(stderr, ScriptNotFound)
    /\ result' = "true"
    /\ pc' = "done"
    /\ UNCHANGED <<metadata, source, invokeFn, codeInputs, codeOutputs,
                   outputErrors, hasDynamicReturn, errors, warnings, stdout, calls>>
    /\ UNCHANGED scriptVars

\* findInvokeHandler returns null: one error line, and the run is over.
HandlerNotFound ==
    /\ pc = "start"
    /\ source # NoFile
    /\ ~findInvokeHandler(source).threw
    /\ findInvokeHandler(source).value = Null
    /\ calls' = Append(calls, "findInvokeHandler")
    /\ stderr' = Append(stderr, NoHandlerFound)
    /\ result' = "false"
    /\ pc' = "done"
    /\ UNCHANGED <<metadata, source, invokeFn, codeInputs, codeOutputs,
                   outputErrors, hasDynamicReturn, errors, warnings, stdout>>
    /\ UNCHANGED scriptVars

\* findInvokeHandler raises: validateConformance ends with the exception.
HandlerLookupThrows ==
    /\ pc = "start"
    /\ source # NoFile
    /\ findInvokeHandler(source).threw
    /\ calls' = Append(calls, "findInvokeHandler")
    /\ result' = "TypeError"
    /\ pc' = "thrown"
    /\ UNCHANGED <<metadata, source, invokeFn, codeInputs, codeOutputs,
                   outputErrors, hasDynamicReturn, errors, warnings, stderr, stdout>>
    /\ UNCHANGED scriptVars

\* findInvokeHandler returns the value bound to `invoke`.
HandlerFound ==
    /\ pc = "start"
    /\ source # NoFile
    /\ ~findInvokeHandler(source).threw
    /\ findInvokeHandler(source).value # Null
    /\ calls' = Append(calls, "findInvokeHandler")
    /\ invokeFn' = findInvokeHandler(source).value
    /\ pc' = "located"
    /\ UNCHANGED <<metadata, source, codeInputs, codeOutputs, outputErrors,
                   hasDynamicReturn, errors, warnings, stderr, stdout, result>>
    /\ UNCHANGED scriptVars

\* const codeInputs = extractInputs(invokeFn)
ExtractInputs ==
    /\ pc = "located"
    /\ ~extractInputs(invokeFn).threw
    /\ calls' = Append(calls, "extractInputs")
    /\ codeInputs' = extractInputs(invokeFn).value
    /\ pc' = "inputs"
    /\ UNCHANGED <<metadata, source, invokeFn, codeOutputs, outputErrors,
                   hasDynamicReturn, errors, warnings, stderr, stdout, result>>
    /\ UNCHANGED scriptVars

\* extractInputs raises: validateConformance ends with the exception.
ExtractInputsThrows ==
    /\ pc = "located"
    /\ extractInputs(invokeFn).threw
    /\ calls' = Append(calls, "extractInputs")
    /\ result' = "TypeError"
    /\ pc' = "thrown"
    /\ UNCHANGED <<metadata, source, invokeFn, codeInputs, codeOutputs,
                   outputErrors, hasDynamicReturn, errors, warnings, stderr, stdout>>
    /\ UNCHANGED scriptVars

\* const { outputs, errors, hasDynamicReturn } = extractOutputs(invokeFn)
ExtractOutputs ==
    /\ pc = "inputs"
    /\ calls' = Append(calls, "extractOutputs")
    /\ codeOutputs' = extractOutputs(invokeFn).outputs
    /\ outputErrors' = extractOutputs(invokeFn).errors
    /\ hasDynamicReturn' = extractOutputs(invokeFn).hasDynamicReturn
    /\ pc' = "outputs"
    /\ UNCHANGED <<metadata, source, invokeFn, codeInputs, errors, warnings,
                   stderr, stdout, result>>
    /\ UNCHANGED scriptVars

\* The comparison, the report and the return value.
Compare ==
    /\ pc = "outputs"
    /\ LET metadataInputs == NewSet(metadata.inputs)
           metadataOutputs == NewSet(metadata.outputs)
           errs == CompareErrors(outputErrors, codeInputs, codeOutputs,
                                 metadataInputs, metadataOutputs, hasDynamicReturn)
           warns == CompareWarnings(codeInputs, codeOutputs,
                                    metadataInputs, metadataOutputs, hasDynamicReturn)
       IN /\ errors' = errs
          /\ warnings' = warns
          /\ stdout' = stdout
                \o (IF Len(warns) > 0 THEN <<WarningsHeader>> \o warns ELSE <<>>)
                \o (IF Len(errs) > 0 THEN <<>> ELSE <<PassedLine>>)
          /\ stderr' = stderr
                \o (IF Len(errs) > 0 THEN <<FailedHeader>> \o errs ELSE <<>>)
          /\ result' = ReturnValue(errs)
    /\ pc' = "done"
    /\ UNCHANGED <<metadata, source, invokeFn, codeInputs, codeOutputs,
                   outputErrors, hasDynamicReturn, calls>>
    /\ UNCHANGED scriptVars

Next ==
    \/ ScriptMissing
    \/ HandlerNotFound
    \/ HandlerLookupThrows
    \/ HandlerFound
    \/ ExtractInputs
    \/ ExtractInputsThrows
    \/ ExtractOutputs
    \/ Compare

Spec == Init /\ [][Next]_vars

(* ---------------------------------------------------------------------- *)
(* src/script.mjs: values, errors and helpers                              *)
(* ---------------------------------------------------------------------- *)

\* JavaScript values of the job's arguments.  A string is the sequence of
\* its pieces (characters for a user id, words for a token or an address).
UndefinedValue == [type |-> "undefined"]

Num(n) == [type |-> "number", value |-> n]

Str(pieces) == [type |-> "string", value |-> pieces]

\* ToBoolean
Truthy(v) ==
    IF v.type = "undefined" THEN FALSE
    ELSE IF v.type = "number" THEN v.value # 0
    ELSE v.value # <<>>

Whitespace == {" ", "\t"}

\* String.prototype.trim
RECURSIVE TrimStart(_)
TrimStart(cs) ==
    IF cs # <<>> /\ Head(cs) \in Whitespace THEN TrimStart(Tail(cs)) ELSE cs

RECURSIVE TrimEnd(_)
TrimEnd(cs) ==
    IF cs # <<>> /\ cs[Len(cs)] \in Whitespace
    THEN TrimEnd(SubSeq(cs, 1, Len(cs) - 1)) ELSE cs

Trim(cs) == TrimEnd(TrimStart(cs))

\* encodeURIComponent, character by character.
EncodeChar(c) ==
    IF c = " " THEN "%20" ELSE IF c = "\t" THEN "%09"
    ELSE IF c = "/" THEN "%2F" ELSE c

EncodeURIComponent(cs) == [i \in 1..Len(cs) |-> EncodeChar(cs[i])]

\* String.prototype.startsWith / endsWith on a piece.
StartsWith(s, piece) == s # <<>> /\ Head(s) = piece

EndsWith(s, piece) == s # <<>> /\ s[Len(s)] = piece

\* btoa
Btoa(s) == <<"base64(">> \o s \o <<")">>

RetryableError(message) ==
    [class |-> "RetryableError", retryable |-> TRUE, message |-> message]

FatalError(message) ==
    [class |-> "FatalError", retryable |-> FALSE, message |-> message]

\* A plain Error, as the utilities throw it: it has no `retryable`.
Error(message) == [class |-> "Error", message |-> message]

\* What fetch, or reading a response body, rejects with.
NetworkError == [class |-> "TypeError", message |-> <<"fetch failed">>]

\* An exception with its error object.
Raised(e) == [threw |-> TRUE, value |-> e]

SGNL_USER_AGENT == <<"SGNL-CAEP-Hub/2.0">>

(* ---------------------------------------------------------------------- *)
(* validateInputs, getAuthorizationHeader, getBaseURL, revokeUserToken     *)
(* ---------------------------------------------------------------------- *)

InvalidUserId == <<"Invalid or missing userId parameter">>

\* validateInputs as it would be without the test of the trimmed string.
validateInputs_NoTrim(p) ==
    IF ~Truthy(p.userId) \/ p.userId.type # "string"
    THEN Raised(FatalError(InvalidUserId))
    ELSE Returned(UndefinedValue)

validateInputs(p) ==
    IF \/ ~Truthy(p.userId)
       \/ p.userId.type # "string"
       \/ Trim(p.userId.value) = <<>>
    THEN Raised(FatalError(InvalidUserId))
    ELSE Returned(UndefinedValue)

\* token.startsWith('Bearer ') ? token : `Bearer ${token}`
BearerOf(token) ==
    IF StartsWith(token.value, "Bearer ") THEN token.value
    ELSE <<"Bearer ">> \o token.value

\* Which of the four methods getAuthorizationHeader takes.
AuthMethod(ctx) ==
    IF Truthy(ctx.secrets.BEARER_AUTH_TOKEN) THEN "bearer"
    ELSE IF Truthy(ctx.secrets.BASIC_PASSWORD) /\ Truthy(ctx.secrets.BASIC_USERNAME)
        THEN "basic"
    ELSE IF Truthy(ctx.secrets.OAUTH2_AUTHORIZATION_CODE_ACCESS_TOKEN)
        THEN "authorization_code"
    ELSE IF Truthy(ctx.secrets.OAUTH2_CLIENT_CREDENTIALS_CLIENT_SECRET)
        THEN "client_credentials"
    ELSE "none"

\* The client credentials method asks the token endpoint.
FetchesToken(ctx) ==
    /\ AuthMethod(ctx) = "client_credentials"
    /\ Truthy(ctx.environment.OAUTH2_CLIENT_CREDENTIALS_TOKEN_URL)
    /\ Truthy(ctx.environment.OAUTH2_CLIENT_CREDENTIALS_CLIENT_ID)

TokenRequest(ctx) ==
    [method |-> "POST",
     url |-> ctx.environment.OAUTH2_CLIENT_CREDENTIALS_TOKEN_URL.value]

\* getAuthorizationHeader; tokenOutcome is what getClientCredentialsToken
\* gives when it is called.
getAuthorizationHeader(ctx, tokenOutcome) ==
    LET method == AuthMethod(ctx)
    IN IF method = "bearer" THEN Returned(BearerOf(ctx.secrets.BEARER_AUTH_TOKEN))
       ELSE IF method = "basic"
           THEN Returned(<<"Basic ">>
                         \o Btoa(ctx.secrets.BASIC_USERNAME.value \o <<":">>
                                 \o ctx.secrets.BASIC_PASSWORD.value))
       ELSE IF method = "authorization_code"
           THEN Returned(BearerOf(ctx.secrets.OAUTH2_AUTHORIZATION_CODE_ACCESS_TOKEN))
       ELSE IF method = "client_credentials"
           THEN IF ~FetchesToken(ctx)
                THEN Raised(Error(<<"OAuth2 Client Credentials flow requires TOKEN_URL and CLIENT_ID in env">>))
                ELSE IF tokenOutcome.threw THEN tokenOutcome
                ELSE Returned(<<"Bearer ">> \o tokenOutcome.value.value)
       ELSE Raised(Error(<<"No authentication configured.">>))

\* getBaseURL
getBaseURL(p, ctx) ==
    LET address == IF Truthy(p.address) THEN p.address ELSE ctx.environment.ADDRESS
    IN IF ~Truthy(address)
       THEN Raised(Error(<<"No URL specified. Provide address parameter or ADDRESS environment variable">>))
       ELSE Returned(IF EndsWith(address.value, "/")
                     THEN SubSeq(address.value, 1, Len(address.value) - 1)
                     ELSE address.value)

\* The request revokeUserToken sends.
RevokeRequest(userId, header, base) ==
    [method |-> "DELETE",
     url |-> base \o <<"/v2/users/">> \o EncodeURIComponent(userId.value) \o <<"/token">>,
     headers |-> [Authorization |-> header,
                  ContentType |-> <<"application/json">>,
                  UserAgent |-> SGNL_USER_AGENT]]

\* The statuses a response can have, and their text in a message.
Statuses == {200, 201, 204, 304, 400, 401, 403, 404, 429, 500, 503}

StatusString(n) ==
    CASE n = 200 -> "200" [] n = 201 -> "201" [] n = 204 -> "204"
      [] n = 304 -> "304"
      [] n = 400 -> "400" [] n = 401 -> "401" [] n = 403 -> "403"
      [] n = 404 -> "404" [] n = 429 -> "429" [] n = 500 -> "500"
      [] n = 503 -> "503"

\* response.ok
ResponseOk(status) == status \in 200..299

\* revokeUserToken returns { success: true }.
RevokeSucceeds(res) == res.status = 204 \/ res.ok


\* The error revokeUserToken throws for a response that is not ok.
StatusError(res, userId, responseText) ==
    IF res.status = 429 THEN RetryableError(<<"Zoom API rate limit exceeded">>)
    ELSE IF res.status = 401
        THEN FatalError(<<"Invalid or expired authentication token">>)
    ELSE IF res.status = 403
        THEN FatalError(<<"Insufficient permissions to revoke user token">>)
    ELSE IF res.status = 404 THEN FatalError(<<"User not found: ">> \o userId.value)
    ELSE IF res.status >= 500
        THEN RetryableError(<<"Zoom API server error: ", StatusString(res.status)>>)
    ELSE FatalError(<<"Failed to revoke user token: ", StatusString(res.status), " ">>
                    \o res.statusText \o <<" - ">> \o responseText.value)

\* The catch clause of invoke: what the promise is rejected with.
Catch(error) ==
    IF error.class \in {"RetryableError", "FatalError"} THEN error
    ELSE FatalError(<<"Unexpected error: ">> \o error.message)

(* ---------------------------------------------------------------------- *)
(* The jobs and contexts invoke is called with                             *)
(* ---------------------------------------------------------------------- *)

UserIds ==
    {UndefinedValue, Num(0), Num(7), Str(<<>>), Str(<<" ">>), Str(<<" ", "\t">>),
     Str(<<"u", "1">>), Str(<<" ", "u">>), Str(<<"a", "/", "b">>)}

ParamAddresses ==
    {UndefinedValue, Str(<<>>), Str(<<"https://api.zoom.us">>),
     Str(<<"https://api.zoom.us", "/">>)}

JobParams == [userId : UserIds, address : ParamAddresses]

NoSecrets ==
    [BEARER_AUTH_TOKEN |-> UndefinedValue,
     BASIC_USERNAME |-> UndefinedValue,
     BASIC_PASSWORD |-> UndefinedValue,
     OAUTH2_AUTHORIZATION_CODE_ACCESS_TOKEN |-> UndefinedValue,
     OAUTH2_CLIENT_CREDENTIALS_CLIENT_SECRET |-> UndefinedValue]

SecretSets ==
    {NoSecrets,
     [NoSecrets EXCEPT !.BEARER_AUTH_TOKEN = Str(<<"tok">>)],
     [NoSecrets EXCEPT !.BEARER_AUTH_TOKEN = Str(<<"Bearer ", "tok">>)],
     [NoSecrets EXCEPT !.BASIC_USERNAME = Str(<<"user">>),
                       !.BASIC_PASSWORD = Str(<<"pass">>)],
     [NoSecrets EXCEPT !.BASIC_USERNAME = Str(<<"user">>)],
     [NoSecrets EXCEPT !.OAUTH2_AUTHORIZATION_CODE_ACCESS_TOKEN = Str(<<"code">>)],
     [NoSecrets EXCEPT !.OAUTH2_CLIENT_CREDENTIALS_CLIENT_SECRET = Str(<<"secret">>)]}

Environments ==
    [ADDRESS : {UndefinedValue, Str(<<"https://env.zoom.us", "/">>)},
     OAUTH2_CLIENT_CREDENTIALS_TOKEN_URL : {UndefinedValue, Str(<<"https://idp/token">>)},
     OAUTH2_CLIENT_CREDENTIALS_CLIENT_ID : {UndefinedValue, Str(<<"client">>)}]

Contexts == [secrets : SecretSets, environment : Environments]

\* What getClientCredentialsToken can come back with.
TokenOutcomes ==
    {Returned(Str(<<"fetched">>)),
     Raised(Error(<<"OAuth2 token request failed">>)),
     Raised(Error(<<"No access_token in OAuth2 response">>)),
     Raised(NetworkError)}

\* What reading the body of a response can come back with.
BodyOutcomes == {Returned(Str(<<"body">>)), Raised(NetworkError)}

Responses ==
    {[status |-> st, ok |-> ResponseOk(st), statusText |-> <<"Status">>, text |-> b] :
        st \in Statuses, b \in BodyOutcomes}

\* new Date().toISOString()
Timestamps == {"2024-01-01T00:00:00.000Z", "2024-01-01T00:00:01.000Z"}

NoResponse == [type |-> "#none"]

Pending == [state |-> "pending"]

Rejected(error) == [state |-> "rejected", error |-> error]

Resolved(value) == [state |-> "resolved", value |-> value]

(* ---------------------------------------------------------------------- *)
(* invoke                                                                  *)
(* ---------------------------------------------------------------------- *)

\* The validator is not running while the action runs.
ValidatorIdle ==
    /\ metadata = [inputs |-> <<>>, outputs |-> <<>>]
    /\ source = NoFile
    /\ pc = "idle"
    /\ invokeFn = Null
    /\ codeInputs = <<>>
    /\ codeOutputs = <<>>
    /\ outputErrors = <<>>
    /\ hasDynamicReturn = FALSE
    /\ errors = <<>>
    /\ warnings = <<>>
    /\ stderr = <<>>
    /\ stdout = <<>>
    /\ result = "none"
    /\ calls = <<>>

InitInvoke ==
    /\ ValidatorIdle
    /\ jobParams \in JobParams
    /\ context \in Contexts
    /\ stage = "start"
    /\ authHeader = <<>>
    /\ baseUrl = <<>>
    /\ requests = <<>>
    /\ response = NoResponse
    /\ settled = Pending

\* validateInputs throws: the catch clause rejects the promise.
ValidateInputsThrows ==
    /\ stage = "start"
    /\ validateInputs(jobParams).threw
    /\ settled' = Rejected(Catch(validateInputs(jobParams).value))
    /\ stage' = "rejected"
    /\ UNCHANGED <<jobParams, context, authHeader, baseUrl, requests, response>>
    /\ UNCHANGED vars

ValidateInputsReturns ==
    /\ stage = "start"
    /\ ~validateInputs(jobParams).threw
    /\ stage' = "validated"
    /\ UNCHANGED <<jobParams, context, authHeader, baseUrl, requests, response,
                   settled>>
    /\ UNCHANGED vars

\* await getAuthorizationHeader(context) gives the header.
AuthHeaderReturns ==
    /\ stage = "validated"
    /\ \E t \in TokenOutcomes :
          LET out == getAuthorizationHeader(context, t)
          IN /\ ~out.threw
             /\ authHeader' = out.value
    /\ requests' = IF FetchesToken(context)
                   THEN Append(requests, TokenRequest(context)) ELSE requests
    /\ stage' = "authorized"
    /\ UNCHANGED <<jobParams, context, baseUrl, response, settled>>
    /\ UNCHANGED vars

\* await getAuthorizationHeader(context) throws.
AuthHeaderThrows ==
    /\ stage = "validated"
    /\ \E t \in TokenOutcomes :
          LET out == getAuthorizationHeader(context, t)
          IN /\ out.threw
             /\ settled' = Rejected(Catch(out.value))
    /\ requests' = IF FetchesToken(context)
                   THEN Append(requests, TokenRequest(context)) ELSE requests
    /\ stage' = "rejected"
    /\ UNCHANGED <<jobParams, context, authHeader, baseUrl, response>>
    /\ UNCHANGED vars

BaseURLReturns ==
    /\ stage = "authorized"
    /\ ~getBaseURL(jobParams, context).threw
    /\ baseUrl' = getBaseURL(jobParams, context).value
    /\ stage' = "addressed"
    /\ UNCHANGED <<jobParams, context, authHeader, requests, response, settled>>
    /\ UNCHANGED vars

BaseURLThrows ==
    /\ stage = "authorized"
    /\ getBaseURL(jobParams, context).threw
    /\ settled' = Rejected(Catch(getBaseURL(jobParams, context).value))
    /\ stage' = "rejected"
    /\ UNCHANGED <<jobParams, context, authHeader, baseUrl, requests, response>>
    /\ UNCHANGED vars

\* revokeUserToken: the DELETE request is answered.
FetchResolves ==
    /\ stage = "addressed"
    /\ requests' = Append(requests, RevokeRequest(jobParams.userId, authHeader, baseUrl))
    /\ response' \in Responses
    /\ stage' = "responded"
    /\ UNCHANGED <<jobParams, context, authHeader, baseUrl, settled>>
    /\ UNCHANGED vars

\* revokeUserToken: the DELETE request fails on the network.
FetchRejects ==
    /\ stage = "addressed"
    /\ requests' = Append(requests, RevokeRequest(jobParams.userId, authHeader, baseUrl))
    /\ settled' = Rejected(Catch(NetworkError))
    /\ stage' = "rejected"
    /\ UNCHANGED <<jobParams, context, authHeader, baseUrl, response>>
    /\ UNCHANGED vars

\* revokeUserToken returns, and invoke returns its result.
RevokeReturns ==
    /\ stage = "responded"
    /\ RevokeSucceeds(response)
    /\ \E now \in Timestamps :
          settled' = Resolved([userId |-> jobParams.userId,
                               tokenRevoked |-> TRUE,
                               revokedAt |-> now])
    /\ stage' = "resolved"
    /\ UNCHANGED <<jobParams, context, authHeader, baseUrl, requests, response>>
    /\ UNCHANGED vars

\* The response is not ok and its body cannot be read.
ResponseTextRejects ==
    /\ stage = "responded"
    /\ ~RevokeSucceeds(response)
    /\ response.text.threw
    /\ settled' = Rejected(Catch(response.text.value))
    /\ stage' = "rejected"
    /\ UNCHANGED <<jobParams, context, authHeader, baseUrl, requests, response>>
    /\ UNCHANGED vars

\* The response is not ok: the error is chosen by its status.
StatusThrows ==
    /\ stage = "responded"
    /\ ~RevokeSucceeds(response)
    /\ ~response.text.threw
    /\ settled' = Rejected(Catch(StatusError(response, jobParams.userId,
                                             response.text.value)))
    /\ stage' = "rejected"
    /\ UNCHANGED <<jobParams, context, authHeader, baseUrl, requests, response>>
    /\ UNCHANGED vars

NextInvoke ==
    \/ ValidateInputsThrows
    \/ ValidateInputsReturns
    \/ AuthHeaderReturns
    \/ AuthHeaderThrows
    \/ BaseURLReturns
    \/ BaseURLThrows
    \/ FetchResolves
    \/ FetchRejects
    \/ RevokeReturns
    \/ ResponseTextRejects
    \/ StatusThrows

SpecInvoke == InitInvoke /\ [][NextInvoke]_<<vars, scriptVars>>

(* ---------------------------------------------------------------------- *)
(* Vocabulary of the properties                                            *)
(* ---------------------------------------------------------------------- *)

\* A handler was located and the run has a result.
Compared == pc = "done" /\ invokeFn # Null

\* How often a message is in a list.
Count(list, m) == Cardinality({i \in 1..Len(list) : list[i] = m})

\* The messages of one kind in a list.
OfKind(list, m(_)) == {i \in 1..Len(list) : list[i].kind = m(Undefined).kind}

\* The return statements of a function, nested function literals included.
ReturnsOf(fn) ==
    LET w == WalkSimple(fn.body)
    IN {w[i] : i \in {j \in 1..Len(w) : w[j].type = "ReturnStatement"}}

\* The return statements whose argument is a record literal.
RecordReturnsOf(fn) == {r \in ReturnsOf(fn) : r.argument.type = "ObjectExpression"}

\* The return statements with an argument that is not a record literal.
DynamicReturnsOf(fn) ==
    {r \in ReturnsOf(fn) : r.argument # Null /\ r.argument.type # "ObjectExpression"}

HasSpread(r) ==
    \E i \in 1..Len(r.argument.properties) :
        r.argument.properties[i].type = "SpreadElement"

\* The keys a returned record lists explicitly.
ListedKeys(r) ==
    {NameOrValue(r.argument.properties[i].key) :
        i \in {j \in 1..Len(r.argument.properties) :
                  r.argument.properties[j].type = "Property"}}

\* The number of spread elements in the returned records of a function.
SpreadCount(fn) ==
    LET w == WalkSimple(fn.body)
    IN Cardinality({ij \in (1..Len(w)) \X (1..(MaxProps + 1)) :
            /\ w[ij[1]].type = "ReturnStatement"
            /\ w[ij[1]].argument.type = "ObjectExpression"
            /\ ij[2] <= Len(w[ij[1]].argument.properties)
            /\ w[ij[1]].argument.properties[ij[2]].type = "SpreadElement"})

\* The return-shape collector has run on the located handler.
OutputsCollected == pc \in {"outputs", "done"} /\ invokeFn # Null

(* ---------------------------------------------------------------------- *)
(* C1                                                                      *)
(* ---------------------------------------------------------------------- *)

DefaultExports(src) ==
    {src.body[i].declaration :
        i \in {j \in 1..Len(src.body) : src.body[j].type = "ExportDefaultDeclaration"}}

\* The default-exported record literals.
ExportedRecords(src) == {d \in DefaultExports(src) : d.type = "ObjectExpression"}

\* The values bound to `invoke` in a record literal.
InvokeValues(rec) ==
    {rec.properties[i].value :
        i \in {j \in 1..Len(rec.properties) :
                  /\ rec.properties[j].type = "Property"
                  /\ NameOrValue(rec.properties[j].key) = "invoke"}}

\* The record literal has only ordinary properties, no spread.
SpreadFree(rec) ==
    \A i \in 1..Len(rec.properties) : rec.properties[i].type = "Property"

\* The run ended at the locator with the one "no handler" error.
LocatorFailure ==
    /\ pc = "done"
    /\ result = "false"
    /\ stderr = <<NoHandlerFound>>
    /\ stdout = <<>>
    /\ errors = <<>>
    /\ warnings = <<>>
    /\ calls = <<"findInvokeHandler">>

\* C2: when the default-exported record binds `invoke` to something that is
\* not a function, the run ends with the single "no handler" error, not
\* passed, and no collector is called.
C2_NonFunctionInvokeIsNoHandler ==
    (/\ source # NoFile
     /\ pc # "start"
     /\ \E rec \in ExportedRecords(source) :
            /\ SpreadFree(rec)
            /\ InvokeValues(rec) # {}
            /\ \A v \in InvokeValues(rec) : v.type \notin FunctionTypes)
    => LocatorFailure

\* C3: without a default export, with a default export that is no record
\* literal, or with a record that has no `invoke`, the run ends with the
\* single "no handler" error, not passed, and nothing else is run.
C3_NoHandlerIsSingleFatalError ==
    (/\ source # NoFile
     /\ pc # "start"
     /\ \/ DefaultExports(source) = {}
        \/ ExportedRecords(source) = {}
        \/ \A rec \in ExportedRecords(source) : InvokeValues(rec) = {})
    => LocatorFailure

\* C4: the analysis never ends with an exception.
C4_NeverRaises == pc # "thrown"

(* ---------------------------------------------------------------------- *)
(* C5 - C10: the comparator                                                *)
(* ---------------------------------------------------------------------- *)

Declared(list) == Range(list)

\* UsageSet is within the declared inputs.
InputsConformant == Range(codeInputs) \subseteq Declared(metadata.inputs)

\* The output checks are skipped.
OutputsUnverifiable == hasDynamicReturn /\ codeOutputs = <<>>

\* C5: after a located handler is compared, the error list has one "used
\* but undeclared" error for each name of UsageSet that is not a declared
\* input, none for any other name, and the run has not passed when there is
\* such a name.
C5_EveryUndeclaredInputIsAnError ==
    Compared =>
        /\ \A n \in Names :
              Count(errors, InputUndeclared(n)) =
                  IF n \in Range(codeInputs) \ Declared(metadata.inputs) THEN 1 ELSE 0
        /\ \A i \in OfKind(errors, InputUndeclared) : errors[i].name \in Names
        /\ ~InputsConformant => result = "false"

\* Both names are read and none is declared: two errors, not passed.
C5_Witness ==
    /\ Compared
    /\ Range(codeInputs) = {"a", "b"}
    /\ metadata.inputs = <<>>
    /\ Count(errors, InputUndeclared("a")) = 1
    /\ Count(errors, InputUndeclared("b")) = 1
    /\ result = "false"

\* C6: a declared input that is never read gives exactly one "declared but
\* unused" warning and no error, and the run passes exactly when the error
\* list is empty, whatever the warnings.
C6_UnusedInputIsOnlyAWarning ==
    Compared =>
        /\ \A n \in Declared(metadata.inputs) \ Range(codeInputs) :
              /\ Count(warnings, InputUnused(n)) = 1
              /\ Count(stdout, InputUnused(n)) = 1
              /\ InputUnused(n) \notin Range(errors)
              /\ InputUndeclared(n) \notin Range(errors)
        /\ OfKind(errors, InputUnused) = {}
        /\ (errors = <<>>) = (result = "true")
        /\ (/\ InputsConformant
            /\ outputErrors = <<>>
            /\ Range(codeOutputs) = Declared(metadata.outputs)
            /\ codeOutputs # <<>>) => result = "true"

\* Inputs {b, a} declared, only `a` read, outputs conformant: one warning
\* for `b`, no error, passed.
C6_Witness ==
    /\ Compared
    /\ metadata.inputs = <<"b", "a">>
    /\ codeInputs = <<"a">>
    /\ warnings = <<InputUnused("b")>>
    /\ errors = <<>>
    /\ result = "true"

\* The errors of the two output checks in a list.
OutputErrorsIn(list) == OfKind(list, OutputNotReturned) \cup OfKind(list, OutputUndeclared)

\* C7: when the output checks are not skipped, the output errors are one
\* "declared but not produced" for each declared output missing from
\* ProducedSet and one "produced but undeclared" for each produced name that
\* is not declared, and nothing else.
C7_OutputErrorsAreExactlyTheMismatches ==
    (Compared /\ ~OutputsUnverifiable) =>
        /\ \A n \in Names :
              /\ Count(errors, OutputNotReturned(n)) =
                    IF n \in Declared(metadata.outputs) \ Range(codeOutputs) THEN 1 ELSE 0
              /\ Count(errors, OutputUndeclared(n)) =
                    IF n \in Range(codeOutputs) \ Declared(metadata.outputs) THEN 1 ELSE 0
        /\ \A i \in OutputErrorsIn(errors) : errors[i].name \in Names
        /\ Range(codeOutputs) # Declared(metadata.outputs) => result = "false"
        /\ (/\ Declared(metadata.outputs) = {"a", "b"}
            /\ codeOutputs = <<"a">>
            /\ outputErrors = <<>>
            /\ InputsConformant)
           => errors = <<OutputNotReturned("b")>> /\ result = "false"

\* Outputs {b, a} declared, the handler returns { a } only: the single
\* error is for `b`, not passed.
C7_Witness ==
    /\ Compared
    /\ metadata.outputs = <<"b", "a">>
    /\ ReturnsOf(invokeFn) = {ReturnStatement(ObjectExpression(<<PropA>>))}
    /\ errors = <<OutputNotReturned("b")>>
    /\ result = "false"

\* C8: a handler with a return of something that is no record literal, and
\* no return that lists a key, gets exactly one "outputs unverifiable"
\* warning and no output error, whatever outputs are declared; it passes
\* when its inputs conform and no returned record has a spread.
C8_DynamicReturnSkipsOutputChecks ==
    (/\ Compared
     /\ DynamicReturnsOf(invokeFn) # {}
     /\ \A r \in RecordReturnsOf(invokeFn) : ListedKeys(r) = {})
    =>  /\ OutputsUnverifiable
        /\ Count(warnings, OutputsSkipped) = 1
        /\ OutputErrorsIn(errors) = {}
        /\ (InputsConformant /\ SpreadCount(invokeFn) = 0) => result = "true"

\* `return f()` alone against two declared outputs: one warning, passed.
C8_Witness ==
    /\ Compared
    /\ ReturnsOf(invokeFn) = {ReturnStatement(CallExpression)}
    /\ metadata.outputs = <<"b", "a">>
    /\ InputsConformant
    /\ OutputsSkipped \in Range(warnings)
    /\ errors = <<>>
    /\ result = "true"

\* C9: with a dynamic return and a non-empty ProducedSet there is no
\* "outputs unverifiable" warning and both output checks run: a declared
\* output that is not produced is an error and the run has not passed.
C9_DynamicReturnWithKeysIsChecked ==
    (Compared /\ hasDynamicReturn /\ codeOutputs # <<>>) =>
        /\ OutputsSkipped \notin Range(warnings)
        /\ OutputsSkipped \notin Range(stdout)
        /\ \A n \in Declared(metadata.outputs) \ Range(codeOutputs) :
              OutputNotReturned(n) \in Range(errors) /\ result = "false"
        /\ \A n \in Range(codeOutputs) \ Declared(metadata.outputs) :
              OutputUndeclared(n) \in Range(errors) /\ result = "false"

\* `return f()` and `return { a }` against declared outputs {b, a}: `b` is
\* reported missing.
C9_Witness ==
    /\ Compared
    /\ DynamicReturnsOf(invokeFn) # {}
    /\ hasDynamicReturn
    /\ codeOutputs = <<"a">>
    /\ metadata.outputs = <<"b", "a">>
    /\ OutputNotReturned("b") \in Range(errors)
    /\ result = "false"

\* C10: every structural defect the return-shape collector found is in the
\* final error list, also when the output checks are skipped, so a handler
\* with a spread in a returned record never passes.
C10_DefectsAlwaysReported ==
    /\ Compared =>
          /\ Count(errors, SpreadError) = Len(outputErrors)
          /\ Count(stderr, SpreadError) = Len(outputErrors)
          /\ Count(errors, SpreadError) = SpreadCount(invokeFn)
    /\ (invokeFn # Null /\ invokeFn.type \in FunctionTypes /\ SpreadCount(invokeFn) > 0)
          => result # "true"

\* `return { ...extra }` and `return f()`: the output checks are skipped
\* and the spread is still an error.
C10_Witness ==
    /\ Compared
    /\ OutputsUnverifiable
    /\ SpreadCount(invokeFn) = 1
    /\ SpreadError \in Range(errors)
    /\ OutputsSkipped \in Range(warnings)
    /\ result = "false"

(* ---------------------------------------------------------------------- *)
(* C11                                                                     *)
(* ---------------------------------------------------------------------- *)

\* The errors a run reported, without the header line.
ReportedErrors == SelectSeq(stderr, LAMBDA m : m # FailedHeader)

\* C11: a run over a source passes exactly when it reported no error: the
\* locator failure and every error of the comparison give "not passed", and
\* an empty error list gives "passed" whatever the warnings.
C11_PassedIffNoErrors ==
    (pc = "done" /\ source # NoFile) =>
        /\ result \in {"true", "false"}
        /\ (result = "true") = (ReportedErrors = <<>>)
        /\ Compared => ReportedErrors = errors
        /\ ~Compared => ReportedErrors = <<NoHandlerFound>>

\* Two inputs declared and never read, the outputs unverifiable: three
\* warnings, no error, passed.
C11_Witness ==
    /\ Compared
    /\ Len(warnings) = 3
    /\ ReportedErrors = <<>>
    /\ result = "true"

(* ---------------------------------------------------------------------- *)
(* C12, C13, C15: the parameter-usage collector                            *)
(* ---------------------------------------------------------------------- *)

\* The parameter-usage collector has run on the located handler and returned.
InputsCollected == pc \in {"inputs", "outputs", "done"} /\ invokeFn # Null

\* The handler's first parameter is a plain name.
Aliased == invokeFn.params # <<>> /\ invokeFn.params[1].type = "Identifier"

\* The handler's first parameter is a destructuring pattern.
Destructured == invokeFn.params # <<>> /\ invokeFn.params[1].type = "ObjectPattern"

\* The statements of a function's body, and those of the function literals
\* written in it.
TopStatements(fn) == Range(fn.body.body)

NestedStatements(fn) ==
    UNION {Range(f.body.body) : f \in {t \in TopStatements(fn) : t.type \in FunctionTypes}}

\* The field accesses of a function: statements, and initializers of
\* declarations.
MemberNodes(fn) ==
    LET stmts == TopStatements(fn) \cup NestedStatements(fn)
    IN {n \in stmts : n.type = "MemberExpression"}
       \cup {n.init : n \in {d \in stmts : d.type = "VariableDeclarator"
                                            /\ d.init.type = "MemberExpression"}}

\* The names read by `alias.name`.
PlainReads(fn, alias) ==
    {NameOrValue(n.property) :
        n \in {k \in MemberNodes(fn) : k.object = Identifier(alias) /\ ~k.computed}}

\* The names read by `alias[...]`.
ComputedReads(fn, alias) ==
    {NameOrValue(n.property) :
        n \in {k \in MemberNodes(fn) : k.object = Identifier(alias) /\ k.computed}}

\* The names a destructuring pattern lists.
PatternNames(pattern) ==
    {NameOrValue(pattern.properties[i].key) :
        i \in {j \in 1..Len(pattern.properties) :
                  pattern.properties[j].type = "Property"}}

\* The declarations `const { ... } = alias` of a function's top level, as
\* positions in its body.
AliasDestructurings(fn, alias) ==
    {i \in 1..Len(fn.body.body) :
        /\ fn.body.body[i].type = "VariableDeclarator"
        /\ fn.body.body[i].id.type = "ObjectPattern"
        /\ fn.body.body[i].init = Identifier(alias)}

\* The positions where the alias is assigned another value.
AliasReassignments(fn, alias) ==
    {i \in 1..Len(fn.body.body) :
        /\ fn.body.body[i].type = "AssignmentExpression"
        /\ fn.body.body[i].left = Identifier(alias)}

\* The names destructured from the alias by name.
DestructuredFromAlias(fn, alias) ==
    UNION {PatternNames(fn.body.body[i].id) : i \in AliasDestructurings(fn, alias)}

\* The names destructured from the alias before any reassignment of it.
DestructuredBeforeReassignment(fn, alias) ==
    UNION {PatternNames(fn.body.body[i].id) :
              i \in {j \in AliasDestructurings(fn, alias) :
                        \A k \in AliasReassignments(fn, alias) : j < k}}

\* C12: with an aliased parameter every `alias.foo` puts foo in UsageSet,
\* and a name read only by a computed access `alias['foo']` is not in it:
\* declared, it gets the "declared but unused" warning; undeclared, it gets
\* no "used but undeclared" error.
C12_ComputedAccessIsNotTracked ==
    (InputsCollected /\ Aliased) =>
        LET alias == invokeFn.params[1].name
        IN /\ PlainReads(invokeFn, alias) \subseteq Range(codeInputs)
           /\ \A n \in ComputedReads(invokeFn, alias)
                        \ (PlainReads(invokeFn, alias)
                           \cup DestructuredFromAlias(invokeFn, alias)) :
                 /\ n \notin Range(codeInputs)
                 /\ Compared =>
                       /\ InputUndeclared(n) \notin Range(errors)
                       /\ n \in Declared(metadata.inputs)
                             => Count(warnings, InputUnused(n)) = 1

\* params['a'] is the only read of `a`, which is declared: the warning for `a`
\* is given.
C12_Witness ==
    /\ Compared
    /\ Aliased
    /\ ComputedReads(invokeFn, "params") = {"a"}
    /\ PlainReads(invokeFn, "params") = {}
    /\ codeInputs = <<>>
    /\ "a" \in Declared(metadata.inputs)
    /\ InputUnused("a") \in Range(warnings)

\* C13: with a destructured parameter UsageSet is the set of names of the
\* pattern, in whatever order they are written, and nothing in the body
\* adds or removes a name.
C13_DestructuredParameterIsTheUsageSet ==
    (InputsCollected /\ Destructured) =>
        /\ Range(codeInputs) = PatternNames(invokeFn.params[1])
        /\ Len(codeInputs) = Cardinality(PatternNames(invokeFn.params[1]))
        /\ invokeFn.params[1].properties \in {<<PropA, PropB>>, <<PropB, PropA>>}
              => Range(codeInputs) = {"a", "b"}

\* ({ 'b': b }) => { params.a }: UsageSet is {b}, the read in the body is
\* not counted.
C13_Witness ==
    /\ InputsCollected
    /\ Destructured
    /\ invokeFn.params[1].properties = <<PropB>>
    /\ invokeFn.body.body = <<MemberExpression(Params, Identifier("a"), FALSE)>>
    /\ codeInputs = <<"b">>

\* C15 (as stated): with an aliased parameter a destructuring declaration
\* adds its names only when its initializer is the alias and the alias was
\* not reassigned before it.
C15_ReassignedAliasAddsNothing ==
    (InputsCollected /\ Aliased) =>
        LET alias == invokeFn.params[1].name
        IN Range(codeInputs) =
              PlainReads(invokeFn, alias)
              \cup DestructuredBeforeReassignment(invokeFn, alias)

\* C15 (amended): with an aliased parameter a destructuring declaration
\* adds its names exactly when its initializer is the name of the alias,
\* reassigned before or not; any other initializer adds nothing.
C15_DestructuringMatchesAliasByName ==
    (InputsCollected /\ Aliased) =>
        LET alias == invokeFn.params[1].name
        IN Range(codeInputs) =
              PlainReads(invokeFn, alias) \cup DestructuredFromAlias(invokeFn, alias)

\* params = other; const { a } = params: `a` is in UsageSet.
C15_Witness ==
    /\ InputsCollected
    /\ Aliased
    /\ invokeFn.body.body =
          <<AssignmentExpression(Params, Identifier("other")),
            VariableDeclarator(ObjectPattern(<<PropA>>), Params)>>
    /\ codeInputs = <<"a">>

(* ---------------------------------------------------------------------- *)
(* C16: the return-shape collector                                         *)
(* ---------------------------------------------------------------------- *)

\* The return statements of a function and of the function literals in it.
AllReturnStatements(fn) ==
    {n \in TopStatements(fn) \cup NestedStatements(fn) : n.type = "ReturnStatement"}

\* C16: ProducedSet is the union of the keys listed by every returned
\* record literal of the handler, nested function literals included,
\* without duplicates; hasDynamicReturn is true exactly when some return
\* has an argument that is no record literal; `return;` does neither.
C16_ProducedSetIsUnionOverAllReturns ==
    OutputsCollected =>
        /\ Range(codeOutputs) =
              UNION {ListedKeys(r) :
                        r \in {q \in AllReturnStatements(invokeFn) :
                                  q.argument.type = "ObjectExpression"}}
        /\ Len(codeOutputs) = Cardinality(Range(codeOutputs))
        /\ hasDynamicReturn =
              (\E r \in AllReturnStatements(invokeFn) :
                  r.argument # Null /\ r.argument.type # "ObjectExpression")

\* return; () => { return { 'b': b } }: ProducedSet is {b} from the nested
\* function, and the return without argument is not dynamic.
C16_Witness ==
    /\ OutputsCollected
    /\ invokeFn.body.body =
          <<ReturnStatement(Null),
            ArrowFunctionExpression(<<>>, <<ReturnStatement(ObjectExpression(<<PropB>>))>>)>>
    /\ codeOutputs = <<"b">>
    /\ ~hasDynamicReturn

(* ---------------------------------------------------------------------- *)
(* Vocabulary of the properties of invoke                                  *)
(* ---------------------------------------------------------------------- *)

\* invoke has been called and has gone past its first statement.
InvokeStarted == stage \notin {"idle", "start"}

\* params.userId is missing, not a string, empty or only whitespace.
UserIdIsInvalid(v) ==
    \/ v.type # "string"
    \/ \A i \in 1..Len(v.value) : v.value[i] \in Whitespace

IsRejected == settled.state = "rejected"

IsRetryable == settled.error.class = "RetryableError" /\ settled.error.retryable

IsFatal == settled.error.class = "FatalError" /\ ~settled.error.retryable

DeleteRequests == SelectSeq(requests, LAMBDA r : r.method = "DELETE")

(* ---------------------------------------------------------------------- *)
(* C14                                                                     *)
(* ---------------------------------------------------------------------- *)

RejectedAfterResponse == IsRejected /\ response # NoResponse

\* A rejection that neither validation nor a response accounts for.
RejectedByOtherException ==
    /\ IsRejected
    /\ response = NoResponse
    /\ ~UserIdIsInvalid(jobParams.userId)

\* Every rejection is retryable or fatal, never unclassified.
RejectionsAreClassified == IsRejected => (IsRetryable \/ IsFatal)

\* 429 and every status >= 500 are retryable, every other non-ok status fatal.
StatusDecidesTheClass ==
    RejectedAfterResponse
        => IF response.status = 429 \/ response.status >= 500
           THEN IsRetryable ELSE IsFatal

\* The same, for the responses whose body could be read.
StatusDecidesTheClassWhenBodyIsRead ==
    (RejectedAfterResponse /\ ~response.text.threw)
        => IF response.status = 429 \/ response.status >= 500
           THEN IsRetryable ELSE IsFatal

\* Any other exception is wrapped as a FatalError 'Unexpected error: ...'.
OtherExceptionsAreWrapped ==
    RejectedByOtherException
        => IsFatal /\ StartsWith(settled.error.message, "Unexpected error: ")

\* A 204 or any other ok status resolves with the result record.
OkStatusResolves ==
    /\ (stage \in {"resolved", "rejected"} /\ response # NoResponse
            /\ (response.status = 204 \/ response.ok))
        => /\ settled.state = "resolved"
           /\ settled.value.userId = jobParams.userId
           /\ settled.value.tokenRevoked
           /\ settled.value.revokedAt \in Timestamps
    /\ settled.state = "resolved"
        => response # NoResponse /\ (response.status = 204 \/ response.ok)

\* C17: every rejection of invoke is classified: 429 and every status >= 500
\* give a RetryableError, every other non-ok status a FatalError, any other
\* exception is wrapped as a FatalError 'Unexpected error: ...', and a 204 or
\* any other ok status resolves with { userId, tokenRevoked: true, revokedAt }.
C17_RejectionsAreClassifiedByStatus ==
    /\ RejectionsAreClassified
    /\ StatusDecidesTheClass
    /\ OtherExceptionsAreWrapped
    /\ OkStatusResolves

\* What remains of it when the body of the response could be read.
ClassifiedByStatusWhenBodyIsRead ==
    /\ RejectionsAreClassified
    /\ StatusDecidesTheClassWhenBodyIsRead
    /\ OtherExceptionsAreWrapped
    /\ OkStatusResolves

====
